---- MODULE Spec2Model ----
(***************************************************************************)
(* TripSpark User microservice: the in-memory user store of main.py and    *)
(* the handlers that read and write it.                                    *)
(*                                                                         *)
(* Spec      every handler runs as one atomic step (single writer).        *)
(* SpecConc  create_user, update_user and delete_user run on worker        *)
(*           threads and interleave at the statements that touch the       *)
(*           shared dict (FastAPI runs "def" handlers in a thread pool).   *)
(***************************************************************************)
EXTENDS Integers, Sequences, FiniteSets, TLC

(* ------------------------------ bounds --------------------------------- *)
MaxUsers == 2
MaxClock == 1
MaxOps == 3
MaxThreads == 2

(* Python None *)
None == "null"

(* uuid4() is modelled as a stream of fresh values 1, 2, 3, ...; create_user
   draws two of them, the user id and then the profile id, so the ids a user
   can ever be stored under are the odd ones.  Requests address these. *)
UUIDs == {2 * k - 1 : k \in 1..MaxUsers}

VARIABLES users, order, now, nextId, deleted, last, nops, req

vars == <<users, order, now, nextId, deleted, last, nops, req>>

(* worker threads of the server's thread pool *)
Threads == 1..MaxThreads

(* ------------------------------ models --------------------------------- *)

(* models/user.py UserRead.profile default: None *)
NoProfile == [none |-> TRUE]

(* UserProfile(id, user_id, created_at, updated_at), every other field at
   its declared default *)
UserProfile(pid, uid, c, u) ==
    [id |-> pid,
     user_id |-> uid,
     spending_preference |-> None,
     daily_budget_limit |-> None,
     trip_style |-> None,
     trip_pace |-> None,
     preferred_vibes |-> <<>>,
     favorite_foods |-> <<>>,
     favorite_activities |-> <<>>,
     favorite_seasons |-> <<>>,
     min_trip_days |-> None,
     max_trip_days |-> None,
     home_location |-> None,
     nearest_airport |-> None,
     transport_preferences |-> <<>>,
     accessibility_notes |-> None,
     cities_visited |-> <<>>,
     places_visited |-> <<>>,
     cities_saved |-> <<>>,
     places_saved |-> <<>>,
     created_at |-> c,
     updated_at |-> u]

ProfileFields == DOMAIN UserProfile(0, 0, 0, 0)

(* UserBase / UserCreate: the five client fields *)
UserBase(n, e, h, c, p) ==
    [full_name |-> n, email |-> e, home_city |-> h, country |-> c,
     profile_photo_url |-> p]

BaseFields == {"full_name", "email", "home_city", "country", "profile_photo_url"}

(* a constructor that lets the id default factory draw a new id *)
UserReadFreshId(base, id, c, u, prof) ==
    [full_name |-> base.full_name,
     email |-> base.email,
     home_city |-> base.home_city,
     country |-> base.country,
     profile_photo_url |-> base.profile_photo_url,
     id |-> nextId,
     created_at |-> c,
     updated_at |-> u,
     profile |-> prof]

(* the UserRead constructor: the five base fields, id, created_at,
   updated_at, profile *)
UserRead(base, id, c, u, prof) ==
    [full_name |-> base.full_name,
     email |-> base.email,
     home_city |-> base.home_city,
     country |-> base.country,
     profile_photo_url |-> base.profile_photo_url,
     id |-> id,
     created_at |-> c,
     updated_at |-> u,
     profile |-> prof]

(* UserUpdate: the parsed PATCH body.  set is model_fields_set; profile is
   an ordered dict, a sequence of <<key, value>> items, with profile_null
   telling an explicit null from a dict. *)
UserUpdate(set, n, e, h, c, p, pnull, dict) ==
    [set |-> set, full_name |-> n, email |-> e, home_city |-> h,
     country |-> c, profile_photo_url |-> p, profile_null |-> pnull,
     profile |-> dict]

(* ------------------------------ inputs --------------------------------- *)

UserCreates ==
    << UserBase("Jane Doe", "jane@x.com", None, None, None),
       UserBase("Jane Doe", "JANE@x.com", None, None, None),
       UserBase("", "jane@x.com", "New York", "USA", "http://p/1.png"),
       UserBase("Bob", "bob@x.com", "Paris", None, None) >>

OnlyProfile(dict) ==
    UserUpdate({"profile"}, None, None, None, None, None, FALSE, dict)

UserUpdates ==
    << UserUpdate({}, None, None, None, None, None, TRUE, <<>>),
       UserUpdate({"email"}, None, "jane@x.com", None, None, None, TRUE, <<>>),
       UserUpdate({"full_name", "home_city"}, "Jane D.", None, "Los Angeles",
                  None, None, TRUE, <<>>),
       UserUpdate({"profile"}, None, None, None, None, None, TRUE, <<>>),
       OnlyProfile(<< <<"trip_pace", "packed">> >>),
       OnlyProfile(<< <<"cities_saved", <<"Lisbon">> >>,
                      <<"preferred_vibes", <<"cozy">> >> >>),
       OnlyProfile(<< <<"user_id", 2 * MaxUsers>> >>),
       UserUpdate({"full_name"}, "", None, None, None, None, TRUE, <<>>),
       OnlyProfile(<< <<"cities_visited", <<[name |-> "Tokyo", rating |-> 55]>> >> >>),
       UserUpdate({"country", "profile"}, None, None, None, "France", None,
                  FALSE, << <<"trip_pace", "slow">>, <<"pace", "slow">>,
                            <<"trip_style", "artsy">> >>) >>

(* PUT /users/{id}/profile bodies: id, user_id and the fields the client
   sent; the timestamps are filled in by the default factories.  Ratings are
   in tenths (50 is 5.0, 55 is 5.5). *)
ProfileBodies ==
    << [id |-> 0, user_id |-> 1, trip_pace |-> "balanced",
        preferred_vibes |-> <<>>,
        cities_visited |-> <<[name |-> "Tokyo", rating |-> 50]>>],
       [id |-> 0, user_id |-> 2 * MaxUsers - 1, trip_pace |-> None,
        preferred_vibes |-> <<"artsy">>],
       [id |-> 0, user_id |-> 1,
        cities_visited |-> <<[name |-> "Tokyo", rating |-> 55]>>] >>

(* ------------------------------ clock ---------------------------------- *)

(* datetime.utcnow() after a previous reading t: never earlier than t *)
utcnow(t) == {t2 \in t..(t + 1) : t2 <= MaxClock}

(* an id source that hands out the lowest id not in use *)
uuid4Recycled(k) ==
    IF k = 0 /\ deleted # {} THEN CHOOSE d \in deleted : TRUE ELSE nextId + k

(* uuid4(): the k-th value after the ones already drawn *)
uuid4(k) == nextId + k

(* --------------------------- pure helpers ------------------------------ *)

(* the uniqueness test comparing the wrong attribute *)
EmailTakenWrongField(e) == \E k \in DOMAIN users : users[k].full_name = e

(* any(u.email == user.email for u in users.values()) *)
EmailTaken(e) == \E k \in DOMAIN users : users[k].email = e

(* list-valued profile fields *)
ListFields == {"preferred_vibes", "favorite_foods", "favorite_activities",
               "favorite_seasons", "transport_preferences", "cities_visited",
               "places_visited", "cities_saved", "places_saved"}

(* a merge that extends list fields instead of overwriting them *)
RECURSIVE SetAttrsExtend(_, _, _)
SetAttrsExtend(prof, items, i) ==
    IF i > Len(items) THEN [profile |-> prof, ok |-> TRUE]
    ELSE IF items[i][1] \notin ProfileFields THEN [profile |-> prof, ok |-> FALSE]
    ELSE SetAttrsExtend([f \in DOMAIN prof |->
                            IF f # items[i][1] THEN prof[f]
                            ELSE IF f \in ListFields THEN prof[f] \o items[i][2]
                            ELSE items[i][2]],
                        items, i + 1)

(* for key, value in prof_update.items(): setattr(stored.profile, key, value)
   UserProfile has no extra fields, so setattr of a name that is not a field
   raises and the loop stops there with the earlier items already applied *)
RECURSIVE SetAttrs(_, _, _)
SetAttrs(prof, items, i) ==
    IF i > Len(items) THEN [profile |-> prof, ok |-> TRUE]
    ELSE IF items[i][1] \notin ProfileFields THEN [profile |-> prof, ok |-> FALSE]
    ELSE SetAttrs([f \in DOMAIN prof |->
                      IF f = items[i][1] THEN items[i][2] ELSE prof[f]],
                  items, i + 1)

(* update_data["profile"] when it is present and not None, else nothing *)
ProfileItems(upd) ==
    IF "profile" \in upd.set /\ ~upd.profile_null THEN upd.profile ELSE <<>>

(* an update that builds the profile from scratch out of the dict instead of
   merging the dict into the stored profile *)
ApplyUpdateReplaceProfile(stored, upd, t) ==
    LET s1 == [f \in DOMAIN stored |->
                 IF f \in upd.set /\ f \in BaseFields THEN upd[f] ELSE stored[f]]
        r == IF ProfileItems(upd) = <<>>
             THEN [profile |-> s1.profile, ok |-> TRUE]
             ELSE SetAttrs(UserProfile(s1.profile.id, s1.profile.user_id, t, t),
                           ProfileItems(upd), 1)
        s2 == [s1 EXCEPT !.profile = r.profile]
    IN  IF r.ok THEN [user |-> [s2 EXCEPT !.updated_at = t], ok |-> TRUE]
        ELSE [user |-> s2, ok |-> FALSE]

(* an update that leaves updated_at as it was *)
ApplyUpdateNoStamp(stored, upd, t) ==
    LET s1 == [f \in DOMAIN stored |->
                 IF f \in upd.set /\ f \in BaseFields THEN upd[f] ELSE stored[f]]
        r == SetAttrs(s1.profile, ProfileItems(upd), 1)
        s2 == [s1 EXCEPT !.profile = r.profile]
    IN  [user |-> s2, ok |-> r.ok]

(* body of update_user after the lookup: the non-profile loop, the profile
   merge, then the updated_at stamp (skipped when the merge raised) *)
ApplyUpdate(stored, upd, t) ==
    LET s1 == [f \in DOMAIN stored |->
                 IF f \in upd.set /\ f \in BaseFields THEN upd[f] ELSE stored[f]]
        r == SetAttrs(s1.profile, ProfileItems(upd), 1)
        s2 == [s1 EXCEPT !.profile = r.profile]
    IN  IF r.ok THEN [user |-> [s2 EXCEPT !.updated_at = t], ok |-> TRUE]
        ELSE [user |-> s2, ok |-> FALSE]

(* CityVisit / PlaceVisit: rating is None or ge=0, le=5 (tenths) *)
ValidVisit(v) == "rating" \in DOMAIN v => (v.rating >= 0 /\ v.rating <= 50)

TripPace == {"slow", "balanced", "packed"}

(* the field constraints of UserProfile that request validation enforces on
   a PUT body *)
ValidProfile(body) ==
    /\ \A f \in {"cities_visited", "places_visited"} \cap DOMAIN body :
          \A j \in DOMAIN body[f] : ValidVisit(body[f][j])
    /\ "trip_pace" \in DOMAIN body => body.trip_pace \in TripPace \cup {None}

(* UserProfile built by request validation from a PUT body *)
ParseProfile(body, c, u) ==
    [f \in ProfileFields |->
        IF f \in DOMAIN body THEN body[f]
        ELSE UserProfile(0, 0, c, u)[f]]

(* the JSON form of a model, as model_dump(mode="json") and the response
   encoder produce it: UUIDs and datetimes become strings *)
UuidStr(x) == "uuid:" \o ToString(x)

IsoFormat(t) == "T" \o ToString(t)

DumpProfile(p) ==
    IF p = NoProfile THEN [none |-> TRUE]
    ELSE [f \in DOMAIN p |->
            IF f \in {"id", "user_id"} THEN UuidStr(p[f])
            ELSE IF f \in {"created_at", "updated_at"} THEN IsoFormat(p[f])
            ELSE p[f]]

ModelDumpJson(u) ==
    [f \in DOMAIN u |->
        IF f = "id" THEN UuidStr(u[f])
        ELSE IF f \in {"created_at", "updated_at"} THEN IsoFormat(u[f])
        ELSE IF f = "profile" THEN DumpProfile(u[f])
        ELSE u[f]]

(* dict item removal keeping insertion order *)
Remove(seq, k) == SelectSeq(seq, LAMBDA x : x # k)

NoBody == [none |-> TRUE]

NoArg == 0

(* a response without an ETag header *)
NoETag == <<>>

(* hashlib.md5(...).hexdigest(): the digest stands for the text it was
   computed from (no two texts of the model share a digest) *)
Md5Hex(text) == <<"md5", text>>

(* a tag computed from the dump without the embedded profile *)
ETagShallow(user) == Md5Hex([f \in DOMAIN user \ {"profile"} |-> ModelDumpJson(user)[f]])

(* etag = md5 of user.model_dump_json() *)
ETag(user) == Md5Hex(ModelDumpJson(user))

(* the response of the request just served; body is the JSON sent, etag the
   ETag header *)
RespondWith(op, id, arg, status, body, etag) ==
    /\ last' = [op |-> op, id |-> id, arg |-> arg, status |-> status,
                body |-> body, etag |-> etag,
                rep |-> (last.op = op /\ last.id = id /\ last.arg = arg)]
    /\ nops' = nops + 1
    /\ UNCHANGED req

Respond(op, id, arg, status, body) == RespondWith(op, id, arg, status, body, NoETag)

(* a worker thread with no request *)
Idle == [pc |-> "idle", op |-> "none", id |-> 0, arg |-> NoArg, status |-> 0,
         with |-> {}, existed |-> FALSE]

(* ------------------------------ state ---------------------------------- *)

Init ==
    /\ users = [k \in {} |-> NoBody]
    /\ order = <<>>
    /\ now = 0
    /\ nextId = 1
    /\ deleted = {}
    /\ last = [op |-> "none", id |-> 0, arg |-> NoArg, status |-> 0,
               body |-> NoBody, etag |-> NoETag, rep |-> FALSE]
    /\ nops = 0
    /\ req = [t \in Threads |-> Idle]

(* ----------------------------- handlers -------------------------------- *)

(* POST /users *)
create_user(i) ==
    LET user == UserCreates[i] IN
    /\ nops < MaxOps
    /\ IF EmailTaken(user.email)
       THEN /\ Respond("create", 0, i, 400, NoBody)
            /\ UNCHANGED <<users, order, now, nextId, deleted>>
       ELSE /\ nextId + 1 <= 2 * MaxUsers
            /\ \E c \in utcnow(now) : \E u \in utcnow(c) :
               \E pc \in utcnow(u) : \E pu \in utcnow(pc) :
                 LET id == uuid4(0)
                     user_read == UserRead(user, id, c, u, NoProfile)
                     profile == UserProfile(uuid4(1), user_read.id, pc, pu)
                     stored == [user_read EXCEPT !.profile = profile]
                 IN  /\ users' = [k \in DOMAIN users \cup {id} |->
                                    IF k = id THEN stored ELSE users[k]]
                     /\ order' = IF id \in DOMAIN users THEN order
                                 ELSE Append(order, id)
                     /\ nextId' = nextId + 2
                     /\ now' = pu
                     /\ Respond("create", id, i, 201, ModelDumpJson(stored))
            /\ UNCHANGED deleted

(* the query parameters of GET /users; a filter of None is not supplied *)
ListQuery(name, email, offset, limit) ==
    [name |-> name, email |-> email, offset |-> offset, limit |-> limit]

ListQueries ==
    << ListQuery(None, None, 0, 10),
       ListQuery("Jane Doe", None, 0, 10),
       ListQuery(None, "jane@x.com", 0, 10),
       ListQuery("Jane Doe", "jane@x.com", 0, 10),
       ListQuery("Jane Doe", None, 0, 1),
       ListQuery(None, None, 1, 1),
       ListQuery(None, None, MaxUsers, 10),
       ListQuery(None, None, 0 - 1, 10),
       ListQuery(None, None, 0, 0),
       ListQuery(None, None, 0, 101) >>

(* Query(0, ge=0) and Query(10, ge=1, le=100) *)
ValidQuery(q) == q.offset >= 0 /\ q.limit >= 1 /\ q.limit <= 100

(* list(users.values()) filtered by the supplied filters, as ids *)
Filtered(q) ==
    LET byName == IF q.name # None
                  THEN SelectSeq(order, LAMBDA k : users[k].full_name = q.name)
                  ELSE order
    IN  IF q.email # None
        THEN SelectSeq(byName, LAMBDA k : users[k].email = q.email)
        ELSE byName

(* a slice that skips one item more than offset *)
SliceSkipsOneMore(results, offset, limit) ==
    LET hi == IF offset + limit < Len(results) THEN offset + limit ELSE Len(results)
        n  == IF hi > offset + 1 THEN hi - (offset + 1) ELSE 0
    IN  [j \in 1..n |-> results[offset + 1 + j]]

(* results[offset: offset + limit] for offset >= 0 and limit >= 1 *)
Slice(results, offset, limit) ==
    LET hi == IF offset + limit < Len(results) THEN offset + limit ELSE Len(results)
        n  == IF hi > offset THEN hi - offset ELSE 0
    IN  [j \in 1..n |-> results[offset + j]]

ListBody(ids) == [items |-> [j \in DOMAIN ids |-> ModelDumpJson(users[ids[j]])]]

(* GET /users *)
list_users(i) ==
    LET q == ListQueries[i] IN
    /\ nops < MaxOps
    /\ IF ~ValidQuery(q)
       THEN Respond("list", 0, i, 422, NoBody)
       ELSE Respond("list", 0, i, 200, ListBody(Slice(Filtered(q), q.offset, q.limit)))
    /\ UNCHANGED <<users, order, now, nextId, deleted>>

(* GET /users/{user_id} *)
get_user(user_id) ==
    /\ nops < MaxOps
    /\ IF user_id \notin DOMAIN users
       THEN Respond("get", user_id, NoArg, 404, NoBody)
       ELSE RespondWith("get", user_id, NoArg, 200, ModelDumpJson(users[user_id]),
                        ETag(users[user_id]))
    /\ UNCHANGED <<users, order, now, nextId, deleted>>

(* a replace that builds the new UserRead without the existing profile *)
replace_user_drops_profile(user_id, i) ==
    LET user == UserCreates[i] IN
    /\ nops < MaxOps
    /\ IF user_id \notin DOMAIN users
       THEN /\ Respond("replace", user_id, i, 404, NoBody)
            /\ UNCHANGED <<users, order, now>>
       ELSE \E u \in utcnow(now) : \E c \in utcnow(u) :
              LET updated == UserRead(user, user_id, c, u, NoProfile)
              IN  /\ users' = [users EXCEPT ![user_id] = updated]
                  /\ now' = c
                  /\ Respond("replace", user_id, i, 200, ModelDumpJson(updated))
                  /\ UNCHANGED order
    /\ UNCHANGED <<nextId, deleted>>

(* PUT /users/{user_id} *)
replace_user(user_id, i) ==
    LET user == UserCreates[i] IN
    /\ nops < MaxOps
    /\ IF user_id \notin DOMAIN users
       THEN /\ Respond("replace", user_id, i, 404, NoBody)
            /\ UNCHANGED <<users, order, now>>
       ELSE \E u \in utcnow(now) : \E c \in utcnow(u) :
              LET existing_profile == users[user_id].profile
                  updated == UserRead(user, user_id, c, u, existing_profile)
              IN  /\ users' = [users EXCEPT ![user_id] = updated]
                  /\ now' = c
                  /\ Respond("replace", user_id, i, 200, ModelDumpJson(updated))
                  /\ UNCHANGED order
    /\ UNCHANGED <<nextId, deleted>>

(* PATCH /users/{user_id} *)
update_user(user_id, i) ==
    LET update == UserUpdates[i] IN
    /\ nops < MaxOps
    /\ IF user_id \notin DOMAIN users
       THEN /\ Respond("update", user_id, i, 404, NoBody)
            /\ UNCHANGED <<users, now>>
       ELSE \E t \in utcnow(now) :
              LET r == ApplyUpdate(users[user_id], update, t) IN
              /\ users' = [users EXCEPT ![user_id] = r.user]
              /\ IF r.ok
                 THEN /\ now' = t
                      /\ Respond("update", user_id, i, 200, ModelDumpJson(r.user))
                 ELSE /\ now' = now
                      /\ Respond("update", user_id, i, 500, NoBody)
    /\ UNCHANGED <<order, nextId, deleted>>

(* a delete that answers 204 for an id that is not stored *)
delete_user_idempotent(user_id) ==
    /\ nops < MaxOps
    /\ users' = [k \in DOMAIN users \ {user_id} |-> users[k]]
    /\ order' = Remove(order, user_id)
    /\ deleted' = IF user_id \in DOMAIN users THEN deleted \cup {user_id} ELSE deleted
    /\ Respond("delete", user_id, NoArg, 204, NoBody)
    /\ UNCHANGED <<now, nextId>>

(* DELETE /users/{user_id} *)
delete_user(user_id) ==
    /\ nops < MaxOps
    /\ IF user_id \notin DOMAIN users
       THEN /\ Respond("delete", user_id, NoArg, 404, NoBody)
            /\ UNCHANGED <<users, order, deleted>>
       ELSE /\ users' = [k \in DOMAIN users \ {user_id} |-> users[k]]
            /\ order' = Remove(order, user_id)
            /\ deleted' = deleted \cup {user_id}
            /\ Respond("delete", user_id, NoArg, 204, NoBody)
    /\ UNCHANGED <<now, nextId>>

(* GET /users/{user_id}/profile *)
get_user_profile(user_id) ==
    /\ nops < MaxOps
    /\ IF user_id \notin DOMAIN users
       THEN Respond("get_profile", user_id, NoArg, 404, NoBody)
       ELSE IF users[user_id].profile = NoProfile
       THEN Respond("get_profile", user_id, NoArg, 404, NoBody)
       ELSE Respond("get_profile", user_id, NoArg, 200,
                    DumpProfile(users[user_id].profile))
    /\ UNCHANGED <<users, order, now, nextId, deleted>>

(* a PUT that fills the fields the body leaves out from the stored profile *)
PutProfileMerge(stored, body, c, u, t) ==
    [stored EXCEPT !.profile = [f \in ProfileFields |->
                                   IF f \in DOMAIN body THEN body[f]
                                   ELSE stored.profile[f]],
                   !.updated_at = t]

(* users[user_id].profile = profile; users[user_id].updated_at = utcnow() *)
PutProfile(stored, body, c, u, t) ==
    [stored EXCEPT !.profile = ParseProfile(body, c, u), !.updated_at = t]

(* PUT /users/{user_id}/profile *)
update_user_profile(user_id, i) ==
    /\ nops < MaxOps
    /\ IF ~ValidProfile(ProfileBodies[i])
       THEN /\ Respond("put_profile", user_id, i, 422, NoBody)
            /\ UNCHANGED <<users, now>>
       ELSE IF user_id \notin DOMAIN users
       THEN /\ Respond("put_profile", user_id, i, 404, NoBody)
            /\ UNCHANGED <<users, now>>
       ELSE \E pc \in utcnow(now) : \E pu \in utcnow(pc) : \E t \in utcnow(pu) :
              LET profile == ParseProfile(ProfileBodies[i], pc, pu) IN
              /\ users' = [users EXCEPT ![user_id] =
                              PutProfile(@, ProfileBodies[i], pc, pu, t)]
              /\ now' = t
              /\ Respond("put_profile", user_id, i, 200, DumpProfile(profile))
    /\ UNCHANGED <<order, nextId, deleted>>

Next ==
    \/ \E i \in DOMAIN UserCreates : create_user(i)
    \/ \E i \in DOMAIN ListQueries : list_users(i)
    \/ \E id \in UUIDs : get_user(id)
    \/ \E id \in UUIDs : \E i \in DOMAIN UserCreates : replace_user(id, i)
    \/ \E id \in UUIDs : \E i \in DOMAIN UserUpdates : update_user(id, i)
    \/ \E id \in UUIDs : delete_user(id)
    \/ \E id \in UUIDs : get_user_profile(id)
    \/ \E id \in UUIDs : \E i \in DOMAIN ProfileBodies : update_user_profile(id, i)

Spec == Init /\ [][Next]_vars

(* ------------------- handlers on worker threads ------------------------ *)

InFlight(t) == req[t].pc \notin {"idle", "done"}

(* thread t takes a request; with records the requests it overlaps *)
Begin(t, op, id, arg, pc) ==
    /\ ~InFlight(t)
    /\ nops < MaxOps
    /\ nops' = nops + 1
    /\ req' = [t2 \in Threads |->
                 IF t2 = t
                 THEN [pc |-> pc, op |-> op, id |-> id, arg |-> arg,
                       status |-> 0,
                       with |-> {t3 \in Threads \ {t} : InFlight(t3)},
                       existed |-> id \in DOMAIN users]
                 ELSE IF InFlight(t2)
                 THEN [req[t2] EXCEPT !.with = @ \cup {t}]
                 ELSE [req[t2] EXCEPT !.with = @ \ {t}]]
    /\ UNCHANGED <<users, order, now, nextId, deleted, last>>

begin_create_user(t, i) == Begin(t, "create", 0, i, "create_check")

begin_update_user(t, id, i) == Begin(t, "update", id, i, "update_check")

begin_delete_user(t, id) == Begin(t, "delete", id, NoArg, "delete_check")

Finish(t, status) == req' = [req EXCEPT ![t].pc = "done", ![t].status = status]

Goto(t, pc) == req' = [req EXCEPT ![t].pc = pc]

(* create_user, the uniqueness test: one pass over users.values() *)
create_user_check(t) ==
    /\ req[t].pc = "create_check"
    /\ IF EmailTaken(UserCreates[req[t].arg].email)
       THEN Finish(t, 400)
       ELSE Goto(t, "create_store")
    /\ UNCHANGED <<users, order, now, nextId, deleted, last, nops>>

(* create_user, building the UserRead and its profile and storing it *)
create_user_store(t) ==
    /\ req[t].pc = "create_store"
    /\ nextId + 1 <= 2 * MaxUsers
    /\ \E c \in utcnow(now) : \E u \in utcnow(c) :
       \E pc \in utcnow(u) : \E pu \in utcnow(pc) :
         LET id == uuid4(0)
             user_read == UserRead(UserCreates[req[t].arg], id, c, u, NoProfile)
             profile == UserProfile(uuid4(1), user_read.id, pc, pu)
             stored == [user_read EXCEPT !.profile = profile]
         IN  /\ users' = [k \in DOMAIN users \cup {id} |->
                            IF k = id THEN stored ELSE users[k]]
             /\ order' = IF id \in DOMAIN users THEN order
                         ELSE Append(order, id)
             /\ nextId' = nextId + 2
             /\ now' = pu
             /\ req' = [req EXCEPT ![t].pc = "done", ![t].status = 201,
                                   ![t].id = id]
    /\ UNCHANGED <<deleted, last, nops>>

(* update_user: if user_id not in users *)
update_user_check(t) ==
    /\ req[t].pc = "update_check"
    /\ IF req[t].id \notin DOMAIN users
       THEN Finish(t, 404)
       ELSE Goto(t, "update_lookup")
    /\ UNCHANGED <<users, order, now, nextId, deleted, last, nops>>

(* update_user: stored = users[user_id], a KeyError when the key is gone *)
update_user_lookup(t) ==
    /\ req[t].pc = "update_lookup"
    /\ IF req[t].id \notin DOMAIN users
       THEN Finish(t, 500)
       ELSE Goto(t, "update_apply")
    /\ UNCHANGED <<users, order, now, nextId, deleted, last, nops>>

(* update_user: the setattr loops and the stamp, on the object the thread
   holds; the dict sees them only while it still holds that object *)
update_user_apply(t) ==
    /\ req[t].pc = "update_apply"
    /\ IF req[t].id \in DOMAIN users
       THEN \E ts \in utcnow(now) :
              LET r == ApplyUpdate(users[req[t].id], UserUpdates[req[t].arg], ts)
              IN  /\ users' = [users EXCEPT ![req[t].id] = r.user]
                  /\ now' = IF r.ok THEN ts ELSE now
                  /\ Finish(t, IF r.ok THEN 200 ELSE 500)
       ELSE \E ts \in utcnow(now) :
              LET ok == SetAttrs(UserProfile(0, 0, 0, 0),
                                 ProfileItems(UserUpdates[req[t].arg]), 1).ok
              IN  /\ users' = users
                  /\ now' = IF ok THEN ts ELSE now
                  /\ Finish(t, IF ok THEN 200 ELSE 500)
    /\ UNCHANGED <<order, nextId, deleted, last, nops>>

(* delete_user: if user_id not in users *)
delete_user_check(t) ==
    /\ req[t].pc = "delete_check"
    /\ IF req[t].id \notin DOMAIN users
       THEN Finish(t, 404)
       ELSE Goto(t, "delete_del")
    /\ UNCHANGED <<users, order, now, nextId, deleted, last, nops>>

(* delete_user: del users[user_id], a KeyError when the key is gone *)
delete_user_del(t) ==
    /\ req[t].pc = "delete_del"
    /\ IF req[t].id \notin DOMAIN users
       THEN /\ Finish(t, 500)
            /\ UNCHANGED <<users, order, deleted>>
       ELSE /\ users' = [k \in DOMAIN users \ {req[t].id} |-> users[k]]
            /\ order' = Remove(order, req[t].id)
            /\ deleted' = deleted \cup {req[t].id}
            /\ Finish(t, 204)
    /\ UNCHANGED <<now, nextId, last, nops>>

NextConc ==
    \/ \E t \in Threads : \E i \in DOMAIN UserCreates : begin_create_user(t, i)
    \/ \E t \in Threads : \E id \in UUIDs : \E i \in DOMAIN UserUpdates :
          begin_update_user(t, id, i)
    \/ \E t \in Threads : \E id \in UUIDs : begin_delete_user(t, id)
    \/ \E t \in Threads : create_user_check(t)
    \/ \E t \in Threads : create_user_store(t)
    \/ \E t \in Threads : update_user_check(t)
    \/ \E t \in Threads : update_user_lookup(t)
    \/ \E t \in Threads : update_user_apply(t)
    \/ \E t \in Threads : delete_user_check(t)
    \/ \E t \in Threads : delete_user_del(t)

SpecConc == Init /\ [][NextConc]_vars

(* ------------------------------ claims --------------------------------- *)

(* a step of Spec that served one request of kind op *)
Served(op) == nops' = nops + 1 /\ last'.op = op

(* C1: in every reachable state no two stored users have the same email
   (case-sensitive exact match). *)
C1_UniqueEmails ==
    \A a \in DOMAIN users : \A b \in DOMAIN users :
        a # b => users[a].email # users[b].email

(* C2: createUser with an email equal to the email of a stored user answers
   400, whatever its other fields are, and leaves the store unchanged. *)
C2_DuplicateEmailRejected ==
    [][\A i \in DOMAIN UserCreates :
         (Served("create") /\ last'.arg = i
          /\ \E k \in DOMAIN users : users[k].email = UserCreates[i].email)
         => (last'.status = 400 /\ users' = users /\ order' = order)]_vars

(* a create was refused for its email although its full_name differs from
   the stored user's *)
C2_Witness ==
    /\ last.op = "create"
    /\ last.status = 400
    /\ \E k \in DOMAIN users :
         /\ users[k].email = UserCreates[last.arg].email
         /\ users[k].full_name # UserCreates[last.arg].full_name

(* C3: in every reachable state every stored user has a profile and that
   profile's user_id equals the user's id. *)
C3_ProfileOwned ==
    \A k \in DOMAIN users :
        /\ users[k].profile # NoProfile
        /\ users[k].profile.user_id = users[k].id

(* requests t1 and t2 have both been answered and ran at the same time *)
Overlapped(t1, t2) ==
    /\ t1 # t2
    /\ req[t1].pc = "done"
    /\ req[t2].pc = "done"
    /\ t2 \in req[t1].with
    /\ t1 \in req[t2].with

(* C4: of two createUser requests with the same email that run concurrently
   at most one answers 201, and at most one user with that email is stored. *)
C4_ConcurrentCreateExclusive ==
    \A t1 \in Threads : \A t2 \in Threads :
        (/\ Overlapped(t1, t2)
         /\ req[t1].op = "create"
         /\ req[t2].op = "create"
         /\ UserCreates[req[t1].arg].email = UserCreates[req[t2].arg].email)
        => /\ ~(req[t1].status = 201 /\ req[t2].status = 201)
           /\ Cardinality({k \in DOMAIN users :
                  users[k].email = UserCreates[req[t1].arg].email}) <= 1

(* C5: updateUser and deleteUser running concurrently on the same stored id,
   with nothing else in flight, end as one of the two serial orders does:
   200 and 204, or 404 and 204, with the user absent. *)
C5_UpdateDeleteSerial ==
    \A tu \in Threads : \A td \in Threads :
        (/\ Overlapped(tu, td)
         /\ req[tu].with = {td}
         /\ req[td].with = {tu}
         /\ req[tu].op = "update"
         /\ req[td].op = "delete"
         /\ req[tu].id = req[td].id
         /\ req[tu].existed
         /\ req[td].existed
         /\ SetAttrs(UserProfile(0, 0, 0, 0),
                     ProfileItems(UserUpdates[req[tu].arg]), 1).ok)
        => /\ req[td].status = 204
           /\ req[tu].status \in {200, 404}
           /\ req[tu].id \notin DOMAIN users

(* C6: createUser followed by getUser on the returned id yields the input's
   five fields, created_at equal to updated_at, and profile.user_id equal to
   the user's id. *)
C6_CreateThenGet ==
    [][(last.op = "create" /\ last.status = 201 /\ Served("get")
        /\ last'.id = last.id)
       => LET in == UserCreates[last.arg]
              out == last'.body
          IN  /\ last'.status = 200
              /\ \A f \in BaseFields : out[f] = in[f]
              /\ out.created_at = out.updated_at
              /\ out.profile.user_id = out.id]_vars

(* all of a user but updated_at *)
Content(u) == [u EXCEPT !.updated_at = 0]

(* the value a dict gives key f: that of its last item with that key *)
DictValue(items, f) ==
    items[CHOOSE j \in DOMAIN items :
            items[j][1] = f /\ \A m \in DOMAIN items : items[m][1] = f => m <= j][2]

DictKeys(items) == {items[j][1] : j \in DOMAIN items}

(* C7: updateUser with a partial holding only a profile sub-object that names
   profile fields sets exactly those fields of the target's profile; its other
   profile fields, its other user fields but updated_at, the other users and
   the insertion order stay as they were. *)
C7_ProfileMergeFrame ==
    [][\A i \in DOMAIN UserUpdates :
         (Served("update") /\ last'.arg = i /\ last'.id \in DOMAIN users
          /\ UserUpdates[i].set = {"profile"} /\ ~UserUpdates[i].profile_null
          /\ DictKeys(UserUpdates[i].profile) \subseteq ProfileFields)
         => LET id == last'.id
                items == UserUpdates[i].profile
            IN  /\ last'.status = 200
                /\ DOMAIN users' = DOMAIN users
                /\ order' = order
                /\ \A k \in DOMAIN users \ {id} : users'[k] = users[k]
                /\ \A f \in BaseFields \cup {"id", "created_at"} :
                      users'[id][f] = users[id][f]
                /\ DOMAIN users'[id].profile = ProfileFields
                /\ \A f \in ProfileFields :
                      users'[id].profile[f] =
                          IF f \in DictKeys(items) THEN DictValue(items, f)
                          ELSE users[id].profile[f]]_vars

(* a profile-only PATCH set trip_pace on a user whose profile already had
   other content, with another user stored next to it *)
C7_Witness ==
    /\ last.op = "update"
    /\ last.status = 200
    /\ UserUpdates[last.arg].set = {"profile"}
    /\ DictKeys(UserUpdates[last.arg].profile) = {"trip_pace"}
    /\ users[last.id].profile.trip_pace = "packed"
    /\ users[last.id].profile.id # 0
    /\ Cardinality(DOMAIN users) = 2

(* C8: the same partial applied twice in immediate succession to the same
   stored id: the second application changes nothing but updated_at. *)
C8_UpdateIdempotent ==
    [][(Served("update") /\ last'.rep /\ last'.id \in DOMAIN users)
       => /\ DOMAIN users' = DOMAIN users
          /\ Content(users'[last'.id]) = Content(users[last'.id])
          /\ \A k \in DOMAIN users \ {last'.id} : users'[k] = users[k]]_vars

(* a list-setting PATCH was applied a second time in a row and succeeded *)
C8_Witness ==
    /\ last.op = "update"
    /\ last.rep
    /\ last.status = 200
    /\ "cities_saved" \in DictKeys(ProfileItems(UserUpdates[last.arg]))
    /\ users[last.id].profile.cities_saved = <<"Lisbon">>

(* C9: deleted is terminal: a deleted id is never stored again, and every
   getUser, replaceUser, updateUser, deleteUser, getProfile and putProfile on
   it answers 404 (the request body being one the framework accepts). *)
C9_DeletedIsTerminal ==
    /\ [](deleted \cap DOMAIN users = {})
    /\ [][(/\ nops' = nops + 1 /\ last'.id \in deleted
           /\ last'.op \in {"get", "replace", "update", "delete",
                            "get_profile", "put_profile"}
           /\ last'.op = "put_profile" => ValidProfile(ProfileBodies[last'.arg]))
          => last'.status = 404]_vars

(* a user was created after another one had been deleted *)
C9_Witness ==
    /\ deleted # {}
    /\ last.op = "create"
    /\ last.status = 201
    /\ last.id \notin deleted

(* C10: created_at of a stored user never changes. *)
C10_CreatedAtFixed ==
    [][\A k \in DOMAIN users \cap DOMAIN users' :
          users'[k].created_at = users[k].created_at]_vars

(* the ratings a stored profile carries *)
Ratings(p) ==
    UNION {{p[f][j].rating : j \in {m \in DOMAIN p[f] : "rating" \in DOMAIN p[f][m]}} :
             f \in {"cities_visited", "places_visited"}}

(* C11: in every reachable state every rating stored in a cities_visited or
   places_visited entry of a profile lies in [0, 5]. *)
C11_RatingsInRange ==
    \A k \in DOMAIN users :
        \A r \in Ratings(users[k].profile) : r >= 0 /\ r <= 50

(* C12: replaceUser on a stored id overwrites the five client fields with the
   input, keeps id, profile and the position in the insertion order, sets
   updated_at to the time of the call, and leaves the other users alone. *)
C12_ReplaceOverwrites ==
    [][\A i \in DOMAIN UserCreates :
         (Served("replace") /\ last'.arg = i /\ last'.id \in DOMAIN users)
         => LET id == last'.id
            IN  /\ last'.status = 200
                /\ DOMAIN users' = DOMAIN users
                /\ order' = order
                /\ \A k \in DOMAIN users \ {id} : users'[k] = users[k]
                /\ \A f \in BaseFields : users'[id][f] = UserCreates[i][f]
                /\ users'[id].id = id
                /\ users'[id].profile = users[id].profile
                /\ users'[id].updated_at >= now
                /\ users'[id].updated_at <= now']_vars

(* the first of two stored users was replaced by an input without home_city
   and kept its place and a profile a PUT had given it *)
C12_Witness ==
    /\ last.op = "replace"
    /\ last.status = 200
    /\ Len(order) = 2
    /\ order[1] = last.id
    /\ users[last.id].home_city = None
    /\ users[last.id].profile.user_id = last.id

(* C13: listUsers answers the stored users matching every supplied filter by
   equality, in insertion order, from position offset on and at most limit of
   them (none when offset is at or past the number of matches); offset < 0 or
   limit outside 1..100 is answered 422.  The store is not changed. *)
C13_ListSlice ==
    [][\A i \in DOMAIN ListQueries :
         (Served("list") /\ last'.arg = i)
         => LET q == ListQueries[i]
                Match(k) == /\ q.name # None => users[k].full_name = q.name
                            /\ q.email # None => users[k].email = q.email
                matched == {p \in DOMAIN order : Match(order[p])}
                rest == IF Cardinality(matched) > q.offset
                        THEN Cardinality(matched) - q.offset ELSE 0
            IN  /\ users' = users
                /\ order' = order
                /\ IF q.offset < 0 \/ q.limit < 1 \/ q.limit > 100
                   THEN last'.status = 422 /\ last'.body = NoBody
                   ELSE LET items == last'.body.items
                        IN  /\ last'.status = 200
                            /\ Len(items) = IF q.limit < rest THEN q.limit ELSE rest
                            /\ Len(items) <= q.limit
                            /\ \A j \in DOMAIN items :
                                 \E p \in matched :
                                   /\ items[j] = ModelDumpJson(users[order[p]])
                                   /\ Cardinality({m \in matched : m < p})
                                        = q.offset + j - 1]_vars

(* offset 1, limit 1 over two stored users answered the second one only *)
C13_Witness ==
    /\ last.op = "list"
    /\ last.status = 200
    /\ ListQueries[last.arg].offset = 1
    /\ Len(order) = 2
    /\ Len(last.body.items) = 1
    /\ last.body.items[1].id = UuidStr(order[2])

IdOps == {"get", "replace", "update", "delete", "get_profile", "put_profile"}

(* C14: getUser, replaceUser, updateUser, deleteUser, getProfile and
   putProfile on an id that is not stored answer 404 and change nothing of
   the store (the request body being one the framework accepts). *)
C14_NotFoundNoChange ==
    [][\A op \in IdOps :
         (/\ Served(op)
          /\ last'.id \notin DOMAIN users
          /\ op = "put_profile" => ValidProfile(ProfileBodies[last'.arg]))
         => /\ last'.status = 404
            /\ last'.body = NoBody
            /\ users' = users
            /\ order' = order
            /\ deleted' = deleted
            /\ nextId' = nextId]_vars

(* putProfile with an accepted body on an id that is not stored, while
   another user is stored *)
C14_Witness ==
    /\ last.op = "put_profile"
    /\ last.status = 404
    /\ last.id \notin DOMAIN users
    /\ DOMAIN users # {}

Mutations == {"replace", "update", "put_profile"}

(* C15: a successful replaceUser, updateUser or putProfile sets the user's
   updated_at to the time of the call (for updateUser and putProfile the
   last clock reading of the call); updated_at of a stored user never
   decreases and changes only by such a call on that user. *)
C15_UpdatedAtRefreshed ==
    [][\A k \in DOMAIN users \cap DOMAIN users' :
         /\ users'[k].updated_at >= users[k].updated_at
         /\ IF \E op \in Mutations :
                 Served(op) /\ last'.id = k /\ last'.status = 200
            THEN /\ users'[k].updated_at >= now
                 /\ users'[k].updated_at <= now'
                 /\ last'.op # "replace" => users'[k].updated_at = now'
            ELSE users'[k].updated_at = users[k].updated_at]_vars

(* an update answered 200 at a time later than the user's creation *)
C15_Witness ==
    /\ last.op = "update"
    /\ last.status = 200
    /\ users[last.id].updated_at = now
    /\ users[last.id].updated_at > users[last.id].created_at

(* C16: putProfile on a stored user makes the embedded profile the supplied
   one, fields not supplied at their defaults and nothing kept of the
   previous profile, stamps the user's updated_at, leaves the user's other
   fields and the other users unchanged; getProfile right after it answers
   the same profile. *)
C16_PutProfileReplaces ==
    [][/\ (Served("put_profile") /\ last'.status = 200)
          => LET id == last'.id
                 body == ProfileBodies[last'.arg]
                 p == users'[id].profile
             IN  /\ \A f \in DOMAIN body : p[f] = body[f]
                 /\ \A f \in ProfileFields \ (DOMAIN body \cup {"created_at", "updated_at"}) :
                      p[f] = UserProfile(0, 0, 0, 0)[f]
                 /\ p.created_at >= now /\ p.created_at <= p.updated_at
                 /\ p.updated_at <= now'
                 /\ users'[id].updated_at = now'
                 /\ \A f \in DOMAIN users[id] \ {"profile", "updated_at"} :
                      users'[id][f] = users[id][f]
                 /\ DOMAIN users' = DOMAIN users
                 /\ \A k \in DOMAIN users \ {id} : users'[k] = users[k]
                 /\ order' = order
                 /\ last'.body = DumpProfile(p)
       /\ (/\ Served("get_profile")
           /\ last.op = "put_profile" /\ last.status = 200
           /\ last'.id = last.id)
          => last'.status = 200 /\ last'.body = last.body]_vars

(* getProfile answered the profile a PUT supplied *)
C16_Witness ==
    /\ last.op = "get_profile"
    /\ last.status = 200
    /\ last.body.trip_pace = "balanced"
    /\ last.body.cities_visited = ProfileBodies[1].cities_visited
    /\ last.body.preferred_vibes = <<>>

(* contents differing from u in one field, nested profile fields and
   timestamps included *)
Variants(u) ==
    {[u EXCEPT ![f] = "changed"] : f \in BaseFields}
    \cup {[u EXCEPT !.created_at = @ + 1], [u EXCEPT !.updated_at = @ + 1],
          [u EXCEPT !.profile.trip_pace = "changed"],
          [u EXCEPT !.profile.cities_saved = @ \o <<"changed">>],
          [u EXCEPT !.profile.updated_at = @ + 1]}

(* C17: getUser answers the ETag computed from the stored user's content and
   does not change the store; reads with no mutation between them see one
   ETag; a step that changes any field of a user changes the user's ETag,
   and a content differing from the one read in any one field, nested
   profile fields and timestamps included, has another ETag.  (The ETag of
   an unchanged content is the same, ETag being a function of the content.) *)
C17_ETagTracksContent ==
    [][/\ (Served("get") /\ last'.id \in DOMAIN users)
          => /\ last'.status = 200
             /\ last'.etag = ETag(users[last'.id])
             /\ last'.etag # NoETag
             /\ users' = users
             /\ order' = order
             /\ (last.op = "get" /\ last.id = last'.id /\ last.status = 200)
                  => last'.etag = last.etag
             /\ \A v \in Variants(users[last'.id]) : ETag(v) # last'.etag
       /\ \A id \in DOMAIN users \cap DOMAIN users' :
            users'[id] # users[id] => ETag(users'[id]) # ETag(users[id])]_vars

(* two reads of one user in a row, the second with the ETag of the first *)
C17_Witness ==
    /\ last.op = "get"
    /\ last.status = 200
    /\ last.rep
    /\ last.etag = ETag(users[last.id])

(* C18: every stored user has a non-empty full_name and an email that is
   not null. *)
C18_NameAndEmailPresent ==
    \A k \in DOMAIN users :
        /\ users[k].full_name # None
        /\ users[k].full_name # ""
        /\ users[k].email # None

(* C19: the user stored under key k has id k, in every reachable state; a
   stored user's id never changes, and replaceUser, updateUser and
   putProfile leave the set of keys as it is. *)
C19_IdIsKey ==
    /\ [](\A k \in DOMAIN users : users[k].id = k)
    /\ [][/\ \A k \in DOMAIN users \cap DOMAIN users' : users'[k].id = users[k].id
          /\ (\E op \in Mutations : Served(op)) => DOMAIN users' = DOMAIN users]_vars

(* a replace answered 200 for the second of two stored users, which is
   still stored under its own id *)
C19_Witness ==
    /\ last.op = "replace"
    /\ last.status = 200
    /\ Len(order) = 2
    /\ order[2] = last.id
    /\ users[last.id].id = last.id

(* C20: an updateUser on a stored user that does not succeed leaves the
   stored user exactly as it was. *)
C20_FailedUpdateNoChange ==
    [][(Served("update") /\ last'.status # 200 /\ last'.id \in DOMAIN users)
       => users' = users]_vars

(* C21: every stored user has created_at <= updated_at. *)
C21_CreatedBeforeUpdated ==
    \A k \in DOMAIN users : users[k].created_at <= users[k].updated_at

====
